---- MODULE Spec2Model ----
(***************************************************************************)
(* Age-Partitioned Bloom Filter (src/src/core.rs) with the Kirsch-         *)
(* Mitzenmacher hash family (src/src/hash/km.rs).                          *)
(*                                                                         *)
(* A value is represented by what the filter can observe of it: the pair   *)
(* <<x1, x2>> = <<H1(v) % m, H2(v) % m>> computed by KMHashers::hash.      *)
(* The bit array is the set of indices of its 1 bits, an index being a     *)
(* position in the single array of (k + l) * m bits.                       *)
(***************************************************************************)
EXTENDS Integers, Sequences, FiniteSets, TLC

\* ---- bounds of the model ----
MaxBits == 9
MaxInserts == 5

\* The largest value of the model's unsigned word, which stands for u64: the
\* arithmetic of KMHashes::get wraps at WordMax + 1.
WordMax == 15

\* std::f64::consts::LN_2 to six decimals, as a fraction.  For the m and k of
\* this model floor(m * LN_2 / k) is the same with the exact constant.
Ln2Num == 693147
Ln2Den == 1000000

\* u64::MAX, the result of the saturating cast `f64::INFINITY as u64`.
SaturatedU64 == WordMax

VARIABLES
    k,          \* APBF.k: slices filled per insertion
    l,          \* APBF.l: additional slices
    m,          \* APBF.m: bits per slice (also KMHashers.p, the modulus)
    g,          \* APBF.g: generation
    n,          \* APBF.n: counter
    p,          \* APBF.p: physical index of logical slice 0
    bits,       \* APBF.bits: the set of indices of the bits that are 1
    len,        \* bits.len(): (k + l) * m, fixed at construction
    ctor,       \* "call_debug" | "call_release" | "returned" | "panicked"
    panicked,   \* a call on the filter has panicked
    total,      \* number of insert calls made on the filter
    answer,     \* result of the latest contains call since the latest insert
    v,          \* the value the caller watches (<<>>: none yet)
    since,      \* insert calls made after the latest insert of v
    clean,      \* v was the first insert and no later insert wrote a bit v probes
    dup,        \* the latest insert repeated v right after an insert of v, without shift()
    in_gen,     \* insert calls made since the latest shift() began (or since new)
    probe       \* the latest direct call of KMHashes::get: <<i, result>>

vars == <<k, l, m, g, n, p, bits, len, ctor, panicked,
          total, answer, v, since, clean, dup, in_gen, probe>>

NoValue == <<>>

\* The values when hash() does not reduce x1 and x2 modulo p.
ValuesUnreduced == (0 .. WordMax) \X (0 .. WordMax)

\* The values the filter can tell apart: <<x1, x2>> with x1, x2 in [0, m).
Values == (0 .. m - 1) \X (0 .. m - 1)

n_slices == k + l

\* ---- hash/km.rs ----

\* u64 arithmetic: results wrap at WordMax + 1.
word(z) == z % (WordMax + 1)

\* KMHashes::get: (x1 + i * x2) % p, with p = m.
get(x, i) == word(x[1] + word(i * x[2])) % m

\* ---- core.rs ----

\* g = ((m as f64) * LN_2 / (k as f64)) as u64.  With k = 0 the quotient is
\* +infinity (m > 0) or NaN (m = 0); the cast saturates, NaN becomes 0.
generation_of(kk, mm) ==
    IF kk = 0
    THEN IF mm = 0 THEN 0 ELSE SaturatedU64
    ELSE (mm * Ln2Num) \div (kk * Ln2Den)

window == l * g
slack == k * g

\* generation() returning the counter n instead of g.
generation_counter == n

generation == g

\* get_slice / get_slice_mut: the range [i*m, i*m + m) of the bit array;
\* slicing panics when the range does not lie inside the array.
slice_in_range(i) == i >= 0 /\ i * m + m <= len
get_slice(i) == i * m .. i * m + m - 1

\* BitSlice::get(h) / BitSlice::set(h, true) on slice i: h must be < m.
bit_in_range(h) == h >= 0 /\ h < m
bit_index(i, h) == i * m + h

\* wrap without the subtraction: the physical index is p + i as it is.
wrap_none(pos) == pos

\* pos.checked_sub(n_slices).unwrap_or(pos)
wrap(pos) == IF pos >= n_slices THEN pos - n_slices ELSE pos

\* shift() taking the current head for the slice to clear.
shift_prev_head(pp) == pp

\* shift(): prev = p.checked_sub(1).unwrap_or(n_slices - 1)
shift_prev(pp) == IF pp >= 1 THEN pp - 1 ELSE n_slices - 1
\* shift_p without the test for p = 0.
shift_p_unchecked(pp) == pp - 1

\* shift(): self.p = if self.p == 0 { l + k - 1 } else { p - 1 }
shift_p(pp) == IF pp = 0 THEN l + k - 1 ELSE pp - 1
\* shift() clearing the whole bit array.
shift_bits_all(pp, b) == {}

\* shift(): slice.set_all(false) on get_slice_mut(prev)
shift_bits(pp, b) == b \ get_slice(shift_prev(pp))
shift_ok(pp) == slice_in_range(shift_prev(pp))

\* shift() that leaves the counter as it is.
shift_keeps_n(pp, b) ==
    [p |-> shift_p(pp), bits |-> shift_bits(pp, b), n |-> n]

\* shift() on head pp and bit set b: the new p, bits and n.
shift(pp, b) ==
    [p |-> shift_p(pp), bits |-> shift_bits(pp, b), n |-> 0]

\* The rotation test one insert early, and one insert late.
needs_shift_early == n + 1 >= g
needs_shift_late == n > g

\* insert(): `if self.n >= self.g { self.shift(); }`
needs_shift == n >= g

\* The insert loop with the bit flipped instead of set.
RECURSIVE insert_loop_flip(_, _, _, _)
insert_loop_flip(x, i, pp, b) ==
    IF i >= k THEN [bits |-> b, ok |-> TRUE]
    ELSE LET pos == wrap(pp + i)
             h == get(x, pos)
             bit == bit_index(pos, h)
         IN IF ~slice_in_range(pos) \/ ~bit_in_range(h)
            THEN [bits |-> b, ok |-> FALSE]
            ELSE insert_loop_flip(x, i + 1, pp,
                                  IF bit \in b THEN b \ {bit} ELSE b \cup {bit})

\* The insert loop taking the hash of the logical offset i, not of pos.
RECURSIVE insert_loop_logical(_, _, _, _)
insert_loop_logical(x, i, pp, b) ==
    IF i >= k THEN [bits |-> b, ok |-> TRUE]
    ELSE LET pos == wrap(pp + i)
             h == get(x, i)
         IN IF ~slice_in_range(pos) \/ ~bit_in_range(h)
            THEN [bits |-> b, ok |-> FALSE]
            ELSE insert_loop_logical(x, i + 1, pp, b \cup {bit_index(pos, h)})

\* insert(): the loop `for i in 0..self.k`, from offset i on, on head pp and
\* bit set b.  ok is FALSE when a slice or bit index is out of range (panic);
\* the bits written before the panic stay written.
RECURSIVE insert_loop(_, _, _, _)
insert_loop(x, i, pp, b) ==
    IF i >= k THEN [bits |-> b, ok |-> TRUE]
    ELSE LET pos == wrap(pp + i)
             h == get(x, pos)
         IN IF ~slice_in_range(pos) \/ ~bit_in_range(h)
            THEN [bits |-> b, ok |-> FALSE]
            ELSE insert_loop(x, i + 1, pp, b \cup {bit_index(pos, h)})

\* The loop of contains() testing only count against k.
RECURSIVE contains_loop_no_prev(_, _, _, _, _, _)
contains_loop_no_prev(x, i, prev_count, count, probes, prevs) ==
    LET pos == wrap(p + i)
        h == get(x, pos)
    IN IF ~slice_in_range(pos) \/ ~bit_in_range(h)
       THEN [result |-> "panic", probes |-> Append(probes, i), prevs |-> prevs]
       ELSE IF bit_index(pos, h) \in bits
            THEN IF count + 1 = k
                 THEN [result |-> "true", probes |-> Append(probes, i),
                       prevs |-> prevs]
                 ELSE contains_loop_no_prev(x, i + 1, prev_count, count + 1,
                                            Append(probes, i), prevs)
            ELSE IF i < k
                 THEN [result |-> "false", probes |-> Append(probes, i),
                       prevs |-> prevs]
                 ELSE contains_loop_no_prev(x, i - k, count, 0,
                                            Append(probes, i),
                                            Append(prevs, count))

\* The loop of contains() testing prev_count + count against k before count
\* is incremented.
RECURSIVE contains_loop_late_check(_, _, _, _, _, _)
contains_loop_late_check(x, i, prev_count, count, probes, prevs) ==
    LET pos == wrap(p + i)
        h == get(x, pos)
    IN IF ~slice_in_range(pos) \/ ~bit_in_range(h)
       THEN [result |-> "panic", probes |-> Append(probes, i), prevs |-> prevs]
       ELSE IF bit_index(pos, h) \in bits
            THEN IF prev_count + count = k
                 THEN [result |-> "true", probes |-> Append(probes, i),
                       prevs |-> prevs]
                 ELSE contains_loop_late_check(x, i + 1, prev_count, count + 1,
                                               Append(probes, i), prevs)
            ELSE IF i < k
                 THEN [result |-> "false", probes |-> Append(probes, i),
                       prevs |-> prevs]
                 ELSE contains_loop_late_check(x, i - k, count, 0,
                                               Append(probes, i),
                                               Append(prevs, count))

\* The loop of contains() adding count to prev_count on a backtrack.
RECURSIVE contains_loop_adds(_, _, _, _, _, _)
contains_loop_adds(x, i, prev_count, count, probes, prevs) ==
    LET pos == wrap(p + i)
        h == get(x, pos)
    IN IF ~slice_in_range(pos) \/ ~bit_in_range(h)
       THEN [result |-> "panic", probes |-> Append(probes, i), prevs |-> prevs]
       ELSE IF bit_index(pos, h) \in bits
            THEN IF prev_count + (count + 1) = k
                 THEN [result |-> "true", probes |-> Append(probes, i),
                       prevs |-> prevs]
                 ELSE contains_loop_adds(x, i + 1, prev_count, count + 1,
                                         Append(probes, i), prevs)
            ELSE IF i < k
                 THEN [result |-> "false", probes |-> Append(probes, i),
                       prevs |-> prevs]
                 ELSE contains_loop_adds(x, i - k, prev_count + count, 0,
                                         Append(probes, i),
                                         Append(prevs, prev_count + count))

\* contains(): the loop, from cursor i with prev_count and count, on the
\* current state.  probes is the sequence of logical slices probed so far,
\* prevs the sequence of values prev_count has had (0 at the start, then the
\* value assigned on each backtrack).
RECURSIVE contains_loop(_, _, _, _, _, _)
contains_loop(x, i, prev_count, count, probes, prevs) ==
    LET pos == wrap(p + i)
        h == get(x, pos)
    IN IF ~slice_in_range(pos) \/ ~bit_in_range(h)
       THEN [result |-> "panic", probes |-> Append(probes, i), prevs |-> prevs]
       ELSE IF bit_index(pos, h) \in bits
            THEN IF prev_count + (count + 1) = k
                 THEN [result |-> "true", probes |-> Append(probes, i),
                       prevs |-> prevs]
                 ELSE contains_loop(x, i + 1, prev_count, count + 1,
                                    Append(probes, i), prevs)
            ELSE IF i < k
                 THEN [result |-> "false", probes |-> Append(probes, i),
                       prevs |-> prevs]
                 ELSE contains_loop(x, i - k, count, 0, Append(probes, i),
                                    Append(prevs, count))

\* contains(): i = l, prev_count = 0, count = 0.
contains_run(x) == contains_loop(x, l, 0, 0, <<>>, <<0>>)
contains(x) == contains_run(x).result

\* ---- construction ----

\* with_hashers: the three debug_assert! are compiled only when
\* debug_assertions is on.
ctor_asserts_fail == k = 0 \/ l = 0 \/ m = 0

with_hashers ==
    /\ ctor \in {"call_debug", "call_release"}
    /\ IF ctor = "call_debug" /\ ctor_asserts_fail
       THEN /\ ctor' = "panicked"
            /\ UNCHANGED <<g, len>>
       ELSE /\ ctor' = "returned"
            /\ g' = generation_of(k, m)
            /\ len' = (k + l) * m
    /\ n' = 0
    /\ p' = 0
    /\ bits' = {}
    /\ UNCHANGED <<k, l, m, panicked, total, answer, v, since, clean, dup,
                   in_gen, probe>>

\* The state of the caller's bookkeeping before any call on the filter.
no_calls ==
    /\ panicked = FALSE
    /\ total = 0
    /\ answer = "none"
    /\ v = NoValue
    /\ since = 0
    /\ clean = FALSE
    /\ dup = FALSE
    /\ in_gen = 0
    /\ probe = NoValue

\* A new filter whose bit array is all ones.
InitOnes ==
    /\ k \in 1 .. MaxBits
    /\ l \in 1 .. MaxBits
    /\ m \in 1 .. MaxBits
    /\ (k + l) * m <= MaxBits
    /\ g = generation_of(k, m)
    /\ len = (k + l) * m
    /\ n = 0
    /\ p = 0
    /\ bits = 0 .. len - 1
    /\ ctor = "returned"
    /\ no_calls

\* A filter as returned by APBF::new(k, l, m) with k, l, m >= 1.
Init ==
    /\ k \in 1 .. MaxBits
    /\ l \in 1 .. MaxBits
    /\ m \in 1 .. MaxBits
    /\ (k + l) * m <= MaxBits
    /\ g = generation_of(k, m)
    /\ len = (k + l) * m
    /\ n = 0
    /\ p = 0
    /\ bits = {}
    /\ ctor = "returned"
    /\ no_calls

\* A filter with k, l, m >= 1 in any state of its bit array and head: the
\* states contains() is applied to as a function of the filter and a value.
\* contains() does not read n.
InitScan ==
    /\ k \in 1 .. MaxBits
    /\ l \in 1 .. MaxBits
    /\ m \in 1 .. MaxBits
    /\ (k + l) * m <= MaxBits
    /\ g = generation_of(k, m)
    /\ len = (k + l) * m
    /\ p \in 0 .. k + l - 1
    /\ n = IF p = 0 THEN 0 ELSE 1
    /\ bits \in SUBSET (0 .. len - 1)
    /\ ctor = "returned"
    /\ no_calls

\* A filter with k, l, m >= 1 whose bit count fits in the word, and the
\* KMHashes of a value v: the states KMHashes::get is applied to.
InitHash ==
    /\ k \in 1 .. WordMax
    /\ l \in 1 .. WordMax
    /\ m \in 1 .. WordMax
    /\ (k + l) * m <= WordMax
    /\ g = generation_of(k, m)
    /\ len = (k + l) * m
    /\ n = 0
    /\ p = 0
    /\ bits = {}
    /\ ctor = "returned"
    /\ panicked = FALSE
    /\ total = 0
    /\ answer = "none"
    /\ v \in Values
    /\ since = 0
    /\ clean = FALSE
    /\ dup = FALSE
    /\ in_gen = 0
    /\ probe = NoValue

\* A call of APBF::new / with_hashers with arbitrary arguments, in a build
\* with or without debug assertions, before it runs.
InitNew ==
    /\ k \in 0 .. MaxBits
    /\ l \in 0 .. MaxBits
    /\ m \in 0 .. MaxBits
    /\ (k + l) * m <= MaxBits
    /\ ctor \in {"call_debug", "call_release"}
    /\ g = 0
    /\ len = 0
    /\ n = 0
    /\ p = 0
    /\ bits = {}
    /\ no_calls

\* ---- calls on the filter ----

\* insert(): what the call leaves in bits, p and n when made in the current
\* state.  rotated: shift() ran.  ok = FALSE: the call panicked on a slice or
\* bit index out of range, at the point the record shows.
insert_run(x) ==
    IF needs_shift /\ ~shift_ok(p)
    THEN [bits |-> bits, p |-> p, n |-> n, rotated |-> TRUE, ok |-> FALSE]
    ELSE LET s == IF needs_shift THEN shift(p, bits)
                                 ELSE [p |-> p, bits |-> bits, n |-> n]
             p1 == s.p
             n1 == s.n
             r == insert_loop(x, 0, p1, s.bits)
         IN [bits |-> r.bits, p |-> p1, n |-> IF r.ok THEN n1 + 1 ELSE n1,
             rotated |-> needs_shift, ok |-> r.ok]

\* x writes a bit that w probes: in some slice that the insert of x fills on
\* head pp, x and w hash to the same position.
collides(x, w, pp) ==
    \E i \in 0 .. k - 1 : get(x, wrap(pp + i)) = get(w, wrap(pp + i))

\* insert(value), with the caller either starting to watch this value
\* (watch = TRUE) or not.
insert(x, watch) ==
    /\ ctor = "returned"
    /\ ~panicked
    /\ total < MaxInserts
    /\ (v # NoValue) => ~watch
    /\ LET r == insert_run(x)
       IN /\ bits' = r.bits
          /\ p' = r.p
          /\ n' = r.n
          /\ panicked' = ~r.ok
          /\ dup' = (v # NoValue /\ since = 0 /\ x = v /\ ~r.rotated)
          /\ in_gen' = IF r.rotated THEN 1 ELSE in_gen + 1
          /\ IF v = NoValue
             THEN /\ v' = IF watch THEN x ELSE NoValue
                  /\ since' = 0
                  /\ clean' = (watch /\ total = 0)
             ELSE /\ v' = v
                  /\ since' = IF x = v THEN 0 ELSE since + 1
                  /\ clean' = (clean /\ ~collides(x, v, r.p))
    /\ total' = total + 1
    /\ answer' = "none"
    /\ UNCHANGED <<k, l, m, g, len, ctor, probe>>

\* contains(value): reads only.
contains_call(x) ==
    /\ ctor = "returned"
    /\ ~panicked
    /\ answer' = contains(x)
    /\ panicked' = (contains(x) = "panic")
    /\ UNCHANGED <<k, l, m, g, n, p, bits, len, ctor,
                   total, v, since, clean, dup, in_gen, probe>>

Next ==
    \/ \E x \in Values, watch \in BOOLEAN : insert(x, watch)
    \/ \E x \in Values : contains_call(x)

Spec == Init /\ [][Next]_vars

\* hashes.get(i) for a physical slice index i, on the KMHashes of v.
get_call(i) ==
    /\ ctor = "returned"
    /\ v # NoValue
    /\ probe' = <<i, get(v, i)>>
    /\ UNCHANGED <<k, l, m, g, n, p, bits, len, ctor, panicked,
                   total, answer, v, since, clean, dup, in_gen>>

NextHash == \E i \in 0 .. n_slices - 1 : get_call(i)

SpecHash == InitHash /\ [][NextHash]_vars

NextScan == \E x \in Values : contains_call(x)

SpecScan == InitScan /\ [][NextScan]_vars

NextNew == with_hashers

SpecNew == InitNew /\ [][NextNew]_vars

\* ---- properties ----

\* The number of 1 bits in physical slice j.
count_ones(j) == Cardinality(bits \cap get_slice(j))

\* C1 (in-window recall): a value that was inserted, with at most window()
\* insert calls made since, is reported present by contains.
C1_InWindowRecall ==
    (ctor = "returned" /\ v # NoValue /\ since <= window)
        => contains(v) = "true"

\* C1's case: a value inserted into a filter that was not empty, exactly
\* window() >= 2 other inserts and at least one rotation ago, in a filter
\* that holds bits of other values.
C1_Witness ==
    /\ v # NoValue /\ window >= 2 /\ since = window
    /\ total > since + 1 /\ p # 0
    /\ Cardinality(bits) > k
    /\ contains(v) = "true"

\* C2 (forgetting), as claimed: v inserted into the empty filter, then
\* window() + slack() inserts of values that write none of the bits v
\* probes; contains(v) is false.
C2_Forgetting ==
    (ctor = "returned" /\ clean /\ since = window + slack)
        => contains(v) = "false"

\* C2 where the generation is not 0: holds.
C2_ForgettingPositiveG == g >= 1 => C2_Forgetting

\* C3 (fresh-insert footprint), as claimed: after exactly one insert into the
\* new filter, physical slices 0 .. k-1 hold one bit each, the others none.
C3_FreshFootprint ==
    (ctor = "returned" /\ total = 1) =>
        /\ \A j \in 0 .. k - 1 : count_ones(j) = 1
        /\ \A j \in k .. n_slices - 1 : count_ones(j) = 0

\* C3 where the generation is not 0: holds.
C3_FreshFootprintPositiveG == g >= 1 => C3_FreshFootprint

\* C4 (head advancement): after exactly g inserts p = 0 and n = g; after
\* exactly g + 1 inserts p = n_slices - 1 and n = 1.
C4_HeadAdvancement ==
    /\ (ctor = "returned" /\ total = g) => (p = 0 /\ n = g)
    /\ (ctor = "returned" /\ total = g + 1) => (p = n_slices - 1 /\ n = 1)

\* C4's case: g >= 2 and the insert number g + 1 has been made.
C4_Witness == g >= 2 /\ total = g + 1 /\ p = n_slices - 1 /\ n = 1

\* C5 (counter invariant), as claimed: after any insert, 0 <= n < g.
C5_CounterBelowG ==
    (ctor = "returned" /\ total >= 1) => (0 <= n /\ n < g)

\* C5 as amended: after any insert, 1 <= n <= g, or n = 1 when g = 0.
C5_CounterUpToG ==
    (ctor = "returned" /\ total >= 1) =>
        (1 <= n /\ n <= (IF g >= 1 THEN g ELSE 1))

\* C5's case: an insert has filled its generation (n = g >= 2) after a
\* rotation.
C5_Witness == total >= 1 /\ g >= 2 /\ n = g /\ p # 0

\* C6 (head-index invariant): 0 <= p < n_slices in every state.
C6_HeadIndexInRange == 0 <= p /\ p < n_slices

\* C6's case: the head has gone round the whole ring: a rotation taken at
\* p = 0 and n_slices - 1 more, back to p = 0.
C6_Witness == total >= 1 /\ p = 0 /\ n = 1 /\ g >= 1 /\ total > g

\* C7 (no runtime failure): no call has panicked, and in every state no
\* insert and no contains call on any value would: every slice index is in
\* [0, n_slices), every bit position in [0, m), and the cursor of contains
\* stays below n_slices.
C7_NoRuntimeFailure ==
    ctor = "returned" =>
        /\ ~panicked
        /\ answer # "panic"
        /\ \A x \in Values :
            LET r == contains_run(x)
            IN /\ insert_run(x).ok
               /\ r.result \in {"true", "false"}
               /\ \A j \in 1 .. Len(r.probes) :
                   /\ r.probes[j] \in 0 .. n_slices - 1
                   /\ wrap(p + r.probes[j]) \in 0 .. n_slices - 1
                   /\ get(x, wrap(p + r.probes[j])) \in 0 .. m - 1

\* C7's case: a contains call has returned in a state where its scan went
\* past the end of the ring (p + i >= n_slices) and backtracked.
C7_Witness ==
    /\ answer \in {"true", "false"} /\ p # 0 /\ total >= 2
    /\ \E x \in Values :
        /\ contains(x) = answer
        /\ \E j \in 1 .. Len(contains_run(x).probes) :
            p + contains_run(x).probes[j] >= n_slices
        /\ \E j \in 1 .. Len(contains_run(x).probes) - 1 :
            contains_run(x).probes[j + 1] < contains_run(x).probes[j]

\* C8 (empty-filter negatives): before any insert, contains is false for
\* every value.
C8_EmptyFilterNegatives ==
    (ctor = "returned" /\ total = 0) =>
        \A x \in Values : contains(x) = "false"

\* C8's case: a contains call on the new filter has returned.
C8_Witness == total = 0 /\ answer = "false" /\ m >= 2 /\ l >= 2

\* C9 (insertion idempotence on bits): an insert of the value that the insert
\* before it inserted, running no shift(), leaves the bit array as it was;
\* n goes up by one and p stays.
C9_InsertIdempotent ==
    [][(v # NoValue /\ since = 0 /\ ~needs_shift /\ insert(v, FALSE))
        => (bits' = bits /\ n' = n + 1 /\ p' = p)]_vars

\* C9's case: the same value was inserted twice in a row in one generation,
\* in a filter that has rotated.
C9_Witness == dup /\ n >= 2 /\ p # 0

\* C10 (construction-time configuration check), as claimed: no filter with
\* k = 0, l = 0 or m = 0 is returned, and a valid configuration never panics.
C10_ConfigurationChecked ==
    /\ ctor = "returned" => (k >= 1 /\ l >= 1 /\ m >= 1)
    /\ ctor = "panicked" => (k = 0 \/ l = 0 \/ m = 0)

\* C11 (observables are configuration constants): no call changes what
\* generation(), window() and slack() return, and window() = l * generation(),
\* slack() = k * generation() before and after every call.
C11_ObservablesConstant ==
    [][/\ generation' = generation
       /\ window' = window
       /\ slack' = slack
       /\ window = l * generation /\ slack = k * generation
       /\ window' = l' * generation' /\ slack' = k' * generation']_vars

\* C11's case: inserts with rotations and a contains call have been made on
\* a filter whose observables are not 0.
C11_Witness ==
    /\ total >= 3 /\ p # 0 /\ answer # "none"
    /\ generation >= 1 /\ window = l * generation /\ slack = k * generation

\* The bit that value x probes in logical slice j is set.
hit(x, j) ==
    bit_index((p + j) % n_slices, get(x, (p + j) % n_slices)) \in bits

\* Some k consecutive logical slices s .. s+k-1, 0 <= s <= l, all hit for x.
has_run(x) == \E s \in 0 .. l : \A j \in s .. s + k - 1 : hit(x, j)

\* C12 (scan equals its reference): in every filter state and for every
\* value, contains is true exactly when k consecutive logical slices starting
\* at some s in 0 .. l all have the value's bit set.
C12_ScanEqualsReference ==
    \A x \in Values : (contains(x) = "true") <=> has_run(x)

\* C12's case: a contains call returned true after backtracking, on a run
\* that starts below logical slice l and wraps round the end of the ring.
C12_Witness ==
    /\ answer = "true" /\ p # 0 /\ k >= 2
    /\ \E x \in Values :
        /\ contains(x) = "true"
        /\ Len(contains_run(x).prevs) >= 2
        /\ ~(\A j \in l .. l + k - 1 : hit(x, j))
        /\ \E j \in 1 .. Len(contains_run(x).probes) :
            p + contains_run(x).probes[j] >= n_slices

\* C13 (scan termination and probe bound): in every filter state and for
\* every value the loop of contains ends with an answer, having probed no
\* logical slice twice, so after at most k + l probes.
C13_ScanProbesOnce ==
    \A x \in Values :
        LET r == contains_run(x)
        IN /\ r.result \in {"true", "false"}
           /\ \A i, j \in 1 .. Len(r.probes) :
                  i # j => r.probes[i] # r.probes[j]
           /\ Len(r.probes) <= k + l

\* C13's case: a contains call has returned on a filter with k >= 2 where a
\* scan backtracks twice and probes all logical slices but one.
C13_Witness ==
    /\ answer \in {"true", "false"} /\ k >= 2 /\ p # 0
    /\ \E x \in Values :
        /\ Len(contains_run(x).prevs) >= 3
        /\ Len(contains_run(x).probes) >= k + l - 1

\* The scan on the completely full bit array answers true after k probes.
C13_FullArray ==
    bits = 0 .. len - 1 =>
        \A x \in Values :
            contains(x) = "true" /\ Len(contains_run(x).probes) = k

\* C14 (backtracking baseline invariant), as claimed: on every backtrack the
\* new prev_count is at least the previous one, and prev_count never exceeds
\* k - 1.
C14_PrevCountMonotone ==
    \A x \in Values :
        LET r == contains_run(x)
        IN /\ \A j \in 1 .. Len(r.prevs) - 1 : r.prevs[j + 1] >= r.prevs[j]
           /\ \A j \in 1 .. Len(r.prevs) : r.prevs[j] <= k - 1

\* C14 as amended: prev_count is always between 0 and k - 1.
C14_PrevCountBounded ==
    \A x \in Values :
        \A j \in 1 .. Len(contains_run(x).prevs) :
            contains_run(x).prevs[j] \in 0 .. k - 1

\* C14's case: a contains call has returned in a state where a scan sets
\* prev_count to k - 1 >= 1 on one backtrack and to less on the next.
C14_Witness ==
    /\ answer \in {"true", "false"} /\ k >= 2
    /\ \E x \in Values :
        LET r == contains_run(x)
        IN \E j \in 1 .. Len(r.prevs) - 1 :
               r.prevs[j] = k - 1 /\ r.prevs[j + 1] < r.prevs[j]

\* The physical slice of logical slice j when the head is pp.
physical(pp, j) == (pp + j) % n_slices

\* C15 (rotation clears the new head): an insert that rotates clears exactly
\* physical slice (p + n_slices - 1) mod n_slices, the oldest logical slice,
\* which is the slice p points to afterwards; when the insert has returned
\* that slice holds the one bit this insert wrote into it and nothing older.
\* (A step with total' = total + 1 is an insert call.)
C15_RotationClearsNewHead ==
    [][(needs_shift /\ total' = total + 1) =>
            /\ p' = physical(p, n_slices - 1)
            /\ shift_prev(p) = p'
            /\ shift(p, bits).bits = bits \ get_slice(physical(p, n_slices - 1))
            /\ shift(p, bits).bits \cap get_slice(p') = {}
            /\ Cardinality(bits' \cap get_slice(p')) = 1]_vars

\* C15's case: with l = 1 and g >= 1, the second rotation has cleared
\* physical slice k - 1, which the first generation had written, and the
\* insert that rotated has written its bit there.
C15_Witness ==
    /\ g >= 1 /\ l = 1 /\ total = 2 * g + 1
    /\ p = n_slices - 2 /\ n = 1 /\ count_ones(p) = 1

\* The physical slices an insert writes when the head is pp.
written(pp) == {physical(pp, o) : o \in 0 .. k - 1}

\* C16 (rotation frame): a rotation leaves the bits of every physical slice
\* but the cleared one as they were, and the slice that was logical i is
\* logical i + 1 afterwards, for every i < n_slices - 1; so after an insert
\* that rotated, every slice the insert did not write holds its old bits.
C16_RotationFrame ==
    [][(needs_shift /\ total' = total + 1) =>
            /\ \A j \in (0 .. n_slices - 1) \ {shift(p, bits).p} :
                   shift(p, bits).bits \cap get_slice(j) = bits \cap get_slice(j)
            /\ \A i \in 0 .. n_slices - 2 :
                   physical(p', i + 1) = physical(p, i)
            /\ \A j \in (0 .. n_slices - 1) \ written(p') :
                   bits' \cap get_slice(j) = bits \cap get_slice(j)]_vars

\* C16's case: an insert has rotated (n = 1 after more than g >= 1 inserts)
\* and a slice it did not write holds bits from before the rotation.
C16_Witness ==
    /\ g >= 1 /\ n = 1 /\ total >= g + 1 /\ p # 0
    /\ \E j \in (0 .. n_slices - 1) \ written(p) : count_ones(j) >= 1

\* C17 (insert effect and frame): after its optional rotation, insert(x) adds
\* to the bit array exactly the bits at position (x1 + phys * x2) mod m of the
\* physical slices phys = (p + offset) mod n_slices, offset in 0 .. k-1,
\* removes none, leaves p as the rotation left it and adds 1 to n; the bit
\* contains(x) probes in each of these slices is then set.
\* (A step with total' = total + 1, v' a value and since' = 0 is a call
\* insert(v'); the caller can watch any insert made while it watches none.)
C17_InsertEffect ==
    [][(total' = total + 1 /\ v' # NoValue /\ since' = 0) =>
            LET x == v'
                s == IF n >= g THEN shift(p, bits)
                               ELSE [p |-> p, bits |-> bits, n |-> n]
            IN /\ bits' = s.bits \cup
                       {(physical(s.p, o) * m)
                          + ((x[1] + (physical(s.p, o) * x[2])) % m) :
                            o \in 0 .. k - 1}
               /\ p' = s.p
               /\ n' = s.n + 1
               /\ \A o \in 0 .. k - 1 :
                      bit_index(physical(p', o), get(x, physical(p', o)))
                          \in bits']_vars

\* C17's case: the latest insert wrote the slices of a value with x2 # 0
\* round the end of the ring, after rotations.
C17_Witness ==
    /\ v # NoValue /\ since = 0 /\ total >= 2
    /\ p # 0 /\ p + k > n_slices /\ v[2] # 0
    /\ \A o \in 0 .. k - 1 : hit(v, o)

\* An insert step in which shift() ran: p has moved (n_slices >= 2).
rotation_step == total' = total + 1 /\ p' # p

\* C18 (rotation cadence), as claimed: an insert rotates exactly when n >= g
\* at its start, and at most once; a rotation happens at the start of an
\* insert exactly when g inserts have been made since the previous rotation
\* began (or since construction).
C18_RotationCadence ==
    [][total' = total + 1 =>
        /\ rotation_step <=> n >= g
        /\ rotation_step => p' = physical(p, n_slices - 1)
        /\ rotation_step <=> in_gen = g]_vars

\* C18 where the generation is not 0: holds.
C18_RotationCadencePositiveG ==
    [][(g >= 1 /\ total' = total + 1) =>
        /\ rotation_step <=> n >= g
        /\ rotation_step => p' = physical(p, n_slices - 1)
        /\ rotation_step <=> in_gen = g]_vars

\* C19 (probe position arithmetic): when the bit count (k + l) * m fits in
\* the word, then for every x1, x2 in [0, m) and every physical slice index
\* i the sum x1 + i * x2 fits in the word, and get(i) is (x1 + i * x2) mod m,
\* a position in [0, m).
C19_ProbeArithmetic ==
    (ctor = "returned" /\ v # NoValue /\ len <= WordMax) =>
        /\ \A i \in 0 .. n_slices - 1 :
            /\ v[1] + i * v[2] <= WordMax
            /\ get(v, i) = (v[1] + i * v[2]) % m
            /\ get(v, i) \in 0 .. m - 1
        /\ probe # NoValue =>
            /\ probe[2] = (v[1] + probe[1] * v[2]) % m
            /\ probe[2] \in 0 .. m - 1

\* C19's case: the bit count is the largest the word holds, and get has been
\* called for the last slice on the value with the largest x1 and x2, whose
\* sum is reduced modulo m.
C19_Witness ==
    /\ len = WordMax /\ m >= 3 /\ v = <<m - 1, m - 1>>
    /\ probe # NoValue /\ probe[1] = n_slices - 1
    /\ v[1] + probe[1] * v[2] >= m

====
